---- MODULE Spec2Model ----
(***************************************************************************)
(* Request lifecycle of the blood-donor matcher: the handlers of           *)
(* routes/requests.js (respond, complete), routes/patients.js (create,     *)
(* update, cancel) over the BloodRequest, User and Notification models.    *)
(* Each handler is one atomic action (one call run to completion).         *)
(***************************************************************************)
EXTENDS Integers, Sequences, FiniteSets, TLC

\* ---------------------------------------------------------------- bounds
MaxTime == 1

\* ------------------------------------------------------- fixed populations
Patients == {"p1", "p2"}
Donors == {"d1", "d2"}
Users == Patients \cup Donors
\* the patient who files the request; the other patient is a non-owner
Owners == {"p1"}
ReqIds == {"r1"}

NoDate == -1
Absent == "absent"

\* ------------------------------------------------------------ HTTP results
\* 400 carries both the spec's ValidationError and its InvalidState
OK == 200
Created == 201
BadRequest == 400
Forbidden == 403
NotFound == 404
ServerError == 500

\* ------------------------------------------------------------ schema enums
BloodTypeEnum == {"A+", "A-", "B+", "B-", "AB+", "AB-", "O+", "O-"}
UrgencyEnum == {"low", "medium", "high", "critical"}
RequestStatusEnum == {"active", "matched", "completed", "cancelled"}
MatchStatusEnum == {"pending", "accepted", "declined", "completed"}
NotificationTypeEnum ==
  {"blood_request", "donor_match", "request_update", "donation_reminder", "system_alert"}

\* --------------------------------------------- inputs the handlers receive
RespondStatusInputs == {"accepted", "declined", "completed", "bogus"}
NoteInputs == {"n1", "n2"}
BloodTypeInputs == {"O-", "X"}
UrgencyInputs == {"critical", "bogus"}
CoordinateLenInputs == {1, 2}
ReasonInputs == {"why"}
\* req.body of PUT /requests/:id: each key is either absent or carries a value
NoBody == [urgency |-> Absent, status |-> Absent, hasMatchedDonors |-> FALSE,
           matchedDonors |-> << >>]
UpdateBodies ==
  {[NoBody EXCEPT !.urgency = g] : g \in {"high", "bogus"}}
    \cup {[NoBody EXCEPT !.status = s] : s \in RequestStatusEnum}
    \cup {[NoBody EXCEPT !.hasMatchedDonors = TRUE]}

\* inflight: the handler invocations that are between two awaits (used by the
\* interleaved specification only)
VARIABLES requests, users, notifications, now, last, inflight
vars == <<requests, users, notifications, now, last, inflight>>

\* ------------------------------------------------------------ array helpers
\* Array.prototype.find as an index: the first of the matching positions, 0 if none
First(positions) ==
  IF positions = {} THEN 0
  ELSE CHOOSE i \in positions : \A j \in positions : i <= j

\* --------------------------------------------------------- model documents
\* new BloodRequest({...}) with the schema defaults
NewBloodRequest_Matched(patient, bloodType, urgency) ==
  [patient |-> patient,
   bloodType |-> bloodType,
   urgency |-> urgency,
   status |-> "matched",
   matchedDonors |-> << >>,
   completedAt |-> NoDate,
   cancelledAt |-> NoDate,
   cancellationReason |-> Absent]
NewBloodRequest(patient, bloodType, urgency) ==
  [patient |-> patient,
   bloodType |-> bloodType,
   urgency |-> urgency,
   status |-> "active",
   matchedDonors |-> << >>,
   completedAt |-> NoDate,
   cancelledAt |-> NoDate,
   cancellationReason |-> Absent]

\* schema validation run by request.save(): the enum of every entry's status
RequestValid(request) ==
  /\ request.status \in RequestStatusEnum
  /\ \A i \in 1..Len(request.matchedDonors) :
       request.matchedDonors[i].status \in MatchStatusEnum

\* schema validation run by notification.save(): the enum of type
NotificationValid(notification) == notification.type \in NotificationTypeEnum

\* the collection after save() of a new document under id r
Insert(collection, r, document) ==
  [x \in DOMAIN collection \cup {r} |-> IF x = r THEN document ELSE collection[x]]

\* the call a handler has just answered: route, req.user.userId, req.params.id,
\* req.body.status, req.body and the HTTP status of the response
Call(op, userId, r, status, body, code) ==
  [op |-> op, user |-> userId, req |-> r, status |-> status, body |-> body, code |-> code]

Init ==
  /\ requests = << >>
  /\ users = [u \in Users |->
                [userType |-> IF u \in Donors THEN "donor" ELSE "patient",
                 isVerified |-> TRUE,
                 isAvailable |-> TRUE,
                 lastDonationDate |-> NoDate]]
  /\ notifications = {}
  /\ now = 0
  /\ last = Call("init", Absent, Absent, Absent, NoBody, OK)
  /\ inflight = << >>

\* the wall clock advances between calls
Tick ==
  /\ now < MaxTime
  /\ now' = now + 1
  /\ last' = Call("tick", Absent, Absent, Absent, NoBody, OK)
  /\ UNCHANGED <<requests, users, notifications, inflight>>

\* POST /request
\* req.body of POST /request: blood type, urgency and the number of hospital
\* coordinates
CreateBody(bloodType, urgency, coordLen) ==
  [bloodType |-> bloodType, urgency |-> urgency, coordinates |-> coordLen]

CreateRequest(userId, r, bloodType, urgency, coordLen) ==
  LET valid == /\ bloodType \in BloodTypeEnum
               /\ urgency \in UrgencyEnum
               /\ coordLen = 2
  IN
  /\ r \notin DOMAIN requests
  /\ IF ~valid
       THEN /\ last' = Call("create", userId, r, Absent,
                         CreateBody(bloodType, urgency, coordLen), BadRequest)
            /\ UNCHANGED <<requests, users, notifications, now, inflight>>
       ELSE /\ requests' = Insert(requests, r, NewBloodRequest(userId, bloodType, urgency))
            /\ last' = Call("create", userId, r, Absent,
                         CreateBody(bloodType, urgency, coordLen), Created)
            /\ UNCHANGED <<users, notifications, now, inflight>>

\* ------------------------------------------------ POST /:id/respond, pieces
\* the status check before a response is recorded
AcceptsResponses_OnlyCompletedClosed(request) == request.status # "completed"
AcceptsResponses(request) ==
  ~(request.status # "active" /\ request.status # "matched")

\* request.matchedDonors.find(match => match.donor.toString() === donorId)
ExistingMatch(request, donorId) ==
  First({i \in 1..Len(request.matchedDonors) : request.matchedDonors[i].donor = donorId})

\* the matched-donor list after the find-or-append of the response
RecordResponse_KeepExisting(request, donorId, status, notes) ==
  IF ExistingMatch(request, donorId) # 0
    THEN request.matchedDonors
    ELSE Append(request.matchedDonors,
                [donor |-> donorId, status |-> status, respondedAt |-> now, notes |-> notes])
RecordResponse_AlwaysAppend(request, donorId, status, notes) ==
  Append(request.matchedDonors,
         [donor |-> donorId, status |-> status, respondedAt |-> now, notes |-> notes])
RecordResponse(request, donorId, status, notes) ==
  LET existingMatch == ExistingMatch(request, donorId) IN
  IF existingMatch # 0
    THEN [request.matchedDonors EXCEPT ![existingMatch].status = status,
                                       ![existingMatch].respondedAt = now,
                                       ![existingMatch].notes = notes]
    ELSE Append(request.matchedDonors,
                [donor |-> donorId, status |-> status, respondedAt |-> now, notes |-> notes])

\* the request status after a response of the given status
StatusAfterResponse_RevertOnDecline(request, status) ==
  IF status = "accepted" /\ request.status = "active" THEN "matched"
  ELSE IF status = "declined" THEN "active"
  ELSE request.status
StatusAfterResponse(request, status) ==
  IF status = "accepted" /\ request.status = "active" THEN "matched" ELSE request.status

\* new Notification({...}) of the respond handler; data.status is not a schema
\* path and is dropped, the outcome stays in the message
DonorResponseNotification(request, r, donorId, status) ==
  [recipient |-> request.patient,
   type |-> "donor_response",
   message |-> status,
   requestId |-> r,
   donorId |-> donorId,
   priority |-> IF status = "accepted" THEN "high" ELSE "medium"]

\* req.body of POST /:id/respond
RespondBody(status, notes) == [status |-> status, notes |-> notes]

\* POST /:id/respond
RespondToRequest(donorId, r, status, notes) ==
  LET request == requests[r]
      saved == [request EXCEPT !.matchedDonors = RecordResponse(request, donorId, status, notes),
                               !.status = StatusAfterResponse(request, status)]
      notification == DonorResponseNotification(request, r, donorId, status)
  IN
  IF r \notin DOMAIN requests
    THEN /\ last' = Call("respond", donorId, r, status, RespondBody(status, notes), NotFound)
         /\ UNCHANGED <<requests, users, notifications, now, inflight>>
  ELSE IF ~AcceptsResponses(request)
    THEN /\ last' = Call("respond", donorId, r, status, RespondBody(status, notes), BadRequest)
         /\ UNCHANGED <<requests, users, notifications, now, inflight>>
  ELSE IF ~RequestValid(saved)
    THEN \* request.save() throws, the catch answers 500
         /\ last' = Call("respond", donorId, r, status, RespondBody(status, notes), ServerError)
         /\ UNCHANGED <<requests, users, notifications, now, inflight>>
  ELSE /\ requests' = [requests EXCEPT ![r] = saved]
       /\ IF NotificationValid(notification)
            THEN /\ notifications' = notifications \cup {notification}
                 /\ last' = Call("respond", donorId, r, status, RespondBody(status, notes), OK)
            ELSE \* notification.save() throws after the request was saved
                 /\ notifications' = notifications
                 /\ last' = Call("respond", donorId, r, status, RespondBody(status, notes), ServerError)
       /\ UNCHANGED <<users, now, inflight>>

\* ----------------------------------------------- POST /:id/complete, pieces
IsPatient(request, userId) == request.patient = userId

IsAcceptedDonor_AnyEntry(request, userId) ==
  \E i \in 1..Len(request.matchedDonors) : request.matchedDonors[i].donor = userId
IsAcceptedDonor(request, userId) ==
  \E i \in 1..Len(request.matchedDonors) :
    request.matchedDonors[i].donor = userId /\ request.matchedDonors[i].status = "accepted"

\* the status check of completion
IsMatched_OrActive(request) == request.status \in {"active", "matched"}
IsMatched(request) == ~(request.status # "matched")

\* request.matchedDonors.find(match => match.status === 'accepted'), as an index
RECURSIVE LastAcceptedFrom(_, _)
LastAcceptedFrom(seq, i) ==
  IF i = 0 THEN 0
  ELSE IF seq[i].status = "accepted" THEN i
  ELSE LastAcceptedFrom(seq, i - 1)
AcceptedDonor_Last(request) ==
  LastAcceptedFrom(request.matchedDonors, Len(request.matchedDonors))
AcceptedDonor_FirstEntry(request) ==
  IF Len(request.matchedDonors) > 0 THEN 1 ELSE 0
AcceptedDonor(request) ==
  First({i \in 1..Len(request.matchedDonors) :
           request.matchedDonors[i].status = "accepted"})

\* User.findByIdAndUpdate(acceptedDonor.donor, { lastDonationDate: new Date(),
\* isAvailable: false }) when an accepted entry was found
MarkDonated_KeepAvailable(request) ==
  LET acceptedDonor == AcceptedDonor(request) IN
  IF acceptedDonor # 0 /\ request.matchedDonors[acceptedDonor].donor \in DOMAIN users
    THEN [users EXCEPT
            ![request.matchedDonors[acceptedDonor].donor].lastDonationDate = now]
    ELSE users
MarkDonated(request) ==
  LET acceptedDonor == AcceptedDonor(request) IN
  IF acceptedDonor # 0 /\ request.matchedDonors[acceptedDonor].donor \in DOMAIN users
    THEN [users EXCEPT
            ![request.matchedDonors[acceptedDonor].donor].lastDonationDate = now,
            ![request.matchedDonors[acceptedDonor].donor].isAvailable = FALSE]
    ELSE users

\* POST /:id/complete
CompleteRequest(userId, r) ==
  LET request == requests[r] IN
  IF r \notin DOMAIN requests
    THEN /\ last' = Call("complete", userId, r, Absent, NoBody, NotFound)
         /\ UNCHANGED <<requests, users, notifications, now, inflight>>
  ELSE IF ~IsPatient(request, userId) /\ ~IsAcceptedDonor(request, userId)
    THEN /\ last' = Call("complete", userId, r, Absent, NoBody, Forbidden)
         /\ UNCHANGED <<requests, users, notifications, now, inflight>>
  ELSE IF ~IsMatched(request)
    THEN /\ last' = Call("complete", userId, r, Absent, NoBody, BadRequest)
         /\ UNCHANGED <<requests, users, notifications, now, inflight>>
  ELSE /\ users' = MarkDonated(request)
       /\ requests' = [requests EXCEPT ![r].status = "completed", ![r].completedAt = now]
       /\ last' = Call("complete", userId, r, Absent, NoBody, OK)
       /\ UNCHANGED <<notifications, now, inflight>>

\* the filter of both findOneAndUpdate calls of routes/patients.js
OwnedAndOpen(r, userId) ==
  /\ r \in DOMAIN requests
  /\ requests[r].patient = userId
  /\ requests[r].status \in {"active", "matched"}

\* PUT /requests/:id : findOneAndUpdate(filter, req.body) sets every schema path
\* the body carries (no validators run on the update)
UpdateRequest(userId, r, body) ==
  LET request == requests[r]
      valid == body.urgency \in UrgencyEnum \cup {Absent}
      updated ==
        [request EXCEPT
           !.urgency = IF body.urgency # Absent THEN body.urgency ELSE @,
           !.status = IF body.status # Absent THEN body.status ELSE @,
           !.matchedDonors = IF body.hasMatchedDonors THEN body.matchedDonors ELSE @]
  IN
  IF ~valid
    THEN /\ last' = Call("update", userId, r, Absent, body, BadRequest)
         /\ UNCHANGED <<requests, users, notifications, now, inflight>>
  ELSE IF ~OwnedAndOpen(r, userId)
    THEN /\ last' = Call("update", userId, r, Absent, body, NotFound)
         /\ UNCHANGED <<requests, users, notifications, now, inflight>>
  ELSE /\ requests' = [requests EXCEPT ![r] = updated]
       /\ last' = Call("update", userId, r, Absent, body, OK)
       /\ UNCHANGED <<users, notifications, now, inflight>>

\* PUT /requests/:id/cancel
CancelRequest(userId, r, reason) ==
  LET request == requests[r] IN
  IF ~OwnedAndOpen(r, userId)
    THEN /\ last' = Call("cancel", userId, r, Absent, NoBody, NotFound)
         /\ UNCHANGED <<requests, users, notifications, now, inflight>>
  ELSE /\ requests' = [requests EXCEPT ![r].status = "cancelled",
                                       ![r].cancelledAt = now,
                                       ![r].cancellationReason = reason]
       /\ last' = Call("cancel", userId, r, Absent, NoBody, OK)
       /\ UNCHANGED <<users, notifications, now, inflight>>

Next ==
  \/ Tick
  \/ \E u \in Owners, r \in ReqIds, b \in BloodTypeInputs, g \in UrgencyInputs,
        c \in CoordinateLenInputs : CreateRequest(u, r, b, g, c)
  \/ \E u \in Donors, r \in ReqIds, s \in RespondStatusInputs, n \in NoteInputs :
        RespondToRequest(u, r, s, n)
  \/ \E u \in Users, r \in ReqIds : CompleteRequest(u, r)
  \/ \E u \in Patients, r \in ReqIds, body \in UpdateBodies : UpdateRequest(u, r, body)
  \/ \E u \in Patients, r \in ReqIds, reason \in ReasonInputs : CancelRequest(u, r, reason)

Spec == Init /\ [][Next]_vars

\* ============================================ interleaved handler invocations
\* Every await of a handler is a point where another invocation may run:
\* respond = findById | request.save | notification.save,
\* complete = findById | User.findByIdAndUpdate | request.save,
\* cancel = findOneAndUpdate (one atomic store operation).
\* request.save() sends the modified paths of the copy only, under the
\* document's version key: an appended entry is a $push that increments the
\* version, a rewritten entry is a positional $set that requires the version
\* read, a changed status is a $set.

MaxCalls == 2
Procs == 1..MaxCalls
ConcurrentStatusInputs == {"accepted", "declined"}
ConcurrentNoteInputs == {"n1"}

NoDoc == [status |-> Absent]
IdleCall ==
  [pc |-> "idle", op |-> Absent, user |-> Absent, req |-> Absent, status |-> Absent,
   existing |-> 0, base |-> NoDoc, doc |-> NoDoc, code |-> 0]

\* a stored document with its version key (__v)
Versioned(request, version) ==
  [k \in DOMAIN request \cup {"version"} |->
     IF k = "version" THEN version ELSE request[k]]

\* stored requests the interleaved calls start from: a fresh request, and a
\* request matched by the accepted response of d1
StartingRequests ==
  {Versioned(NewBloodRequest("p1", "O-", "critical"), 0),
   Versioned([NewBloodRequest("p1", "O-", "critical") EXCEPT
                !.status = "matched",
                !.matchedDonors = <<[donor |-> "d1", status |-> "accepted",
                                     respondedAt |-> 0, notes |-> "n1"]>>], 1)}

InitConcurrent ==
  /\ requests \in [ReqIds -> StartingRequests]
  /\ users = [u \in Users |->
                [userType |-> IF u \in Donors THEN "donor" ELSE "patient",
                 isVerified |-> TRUE,
                 isAvailable |-> TRUE,
                 lastDonationDate |-> NoDate]]
  /\ notifications = {}
  /\ now = 1
  /\ last = Call("init", Absent, Absent, Absent, NoBody, OK)
  /\ inflight = [p \in Procs |-> IdleCall]

\* the invocation p answers with code
Answer(p, call, code) ==
  /\ inflight' = [inflight EXCEPT ![p] = [call EXCEPT !.pc = "done", !.code = code]]
  /\ last' = Call(call.op, call.user, call.req, call.status, NoBody, code)

\* respond, up to the first await after findById: the checks and the changes
\* made to the copy read
BeginRespond(p, donorId, r, status, notes) ==
  LET call == [IdleCall EXCEPT !.op = "respond", !.user = donorId, !.req = r,
                               !.status = status]
      request == requests[r]
      saved == [request EXCEPT !.matchedDonors = RecordResponse(request, donorId, status, notes),
                               !.status = StatusAfterResponse(request, status)]
  IN
  /\ inflight[p].pc = "idle"
  /\ IF r \notin DOMAIN requests
       THEN /\ Answer(p, call, NotFound)
            /\ UNCHANGED <<requests, users, notifications, now>>
     ELSE IF ~AcceptsResponses(request)
       THEN /\ Answer(p, call, BadRequest)
            /\ UNCHANGED <<requests, users, notifications, now>>
     ELSE /\ inflight' = [inflight EXCEPT ![p] =
                            [call EXCEPT !.pc = "save",
                                         !.existing = ExistingMatch(request, donorId),
                                         !.base = request,
                                         !.doc = saved]]
          /\ UNCHANGED <<requests, users, notifications, now, last>>

\* the stored document after the update request.save() sends for a response
ApplyResponseDelta(stored, call) ==
  [stored EXCEPT
     !.matchedDonors =
        IF call.existing # 0
          THEN [@ EXCEPT ![call.existing] =
                  [@ EXCEPT !.status = call.doc.matchedDonors[call.existing].status,
                            !.respondedAt = call.doc.matchedDonors[call.existing].respondedAt,
                            !.notes = call.doc.matchedDonors[call.existing].notes]]
          ELSE Append(@, call.doc.matchedDonors[Len(call.doc.matchedDonors)]),
     !.version = IF call.existing # 0 THEN @ ELSE @ + 1,
     !.status = IF call.doc.status # call.base.status THEN call.doc.status ELSE @]

\* await request.save() of respond
SaveResponse(p) ==
  LET call == inflight[p]
      stored == requests[call.req]
  IN
  /\ call.pc = "save" /\ call.op = "respond"
  /\ IF ~RequestValid(call.doc)
       THEN /\ Answer(p, call, ServerError)
            /\ UNCHANGED <<requests, users, notifications, now>>
     ELSE IF call.existing # 0 /\ stored.version # call.base.version
       THEN \* no document matches id and version: save() throws VersionError
            /\ Answer(p, call, ServerError)
            /\ UNCHANGED <<requests, users, notifications, now>>
     ELSE /\ requests' = [requests EXCEPT ![call.req] = ApplyResponseDelta(stored, call)]
          /\ inflight' = [inflight EXCEPT ![p].pc = "notify"]
          /\ UNCHANGED <<users, notifications, now, last>>

\* await notification.save() of respond, and the answer
NotifyResponse(p) ==
  LET call == inflight[p]
      notification == DonorResponseNotification(call.base, call.req, call.user, call.status)
  IN
  /\ call.pc = "notify"
  /\ IF NotificationValid(notification)
       THEN /\ notifications' = notifications \cup {notification}
            /\ Answer(p, call, OK)
       ELSE /\ notifications' = notifications
            /\ Answer(p, call, ServerError)
  /\ UNCHANGED <<requests, users, now>>

\* complete, up to the first await after findById
BeginComplete(p, userId, r) ==
  LET call == [IdleCall EXCEPT !.op = "complete", !.user = userId, !.req = r]
      request == requests[r]
  IN
  /\ inflight[p].pc = "idle"
  /\ IF r \notin DOMAIN requests
       THEN /\ Answer(p, call, NotFound)
            /\ UNCHANGED <<requests, users, notifications, now>>
     ELSE IF ~IsPatient(request, userId) /\ ~IsAcceptedDonor(request, userId)
       THEN /\ Answer(p, call, Forbidden)
            /\ UNCHANGED <<requests, users, notifications, now>>
     ELSE IF ~IsMatched(request)
       THEN /\ Answer(p, call, BadRequest)
            /\ UNCHANGED <<requests, users, notifications, now>>
     ELSE /\ inflight' = [inflight EXCEPT ![p] =
                            [call EXCEPT !.pc = IF AcceptedDonor(request) # 0
                                                  THEN "mark" ELSE "save",
                                         !.base = request,
                                         !.doc = [request EXCEPT !.status = "completed",
                                                                 !.completedAt = now]]]
          /\ UNCHANGED <<requests, users, notifications, now, last>>

\* await User.findByIdAndUpdate(acceptedDonor.donor, ...) of complete
MarkDonor(p) ==
  LET call == inflight[p] IN
  /\ call.pc = "mark"
  /\ users' = MarkDonated(call.doc)
  /\ inflight' = [inflight EXCEPT ![p].pc = "save"]
  /\ UNCHANGED <<requests, notifications, now, last>>

\* await request.save() of complete, and the answer
SaveCompletion(p) ==
  LET call == inflight[p] IN
  /\ call.pc = "save" /\ call.op = "complete"
  /\ requests' = [requests EXCEPT ![call.req].status = call.doc.status,
                                  ![call.req].completedAt = call.doc.completedAt]
  /\ Answer(p, call, OK)
  /\ UNCHANGED <<users, notifications, now>>

NextConcurrent ==
  \/ \E p \in Procs, u \in Donors, r \in ReqIds, s \in ConcurrentStatusInputs,
        n \in ConcurrentNoteInputs : BeginRespond(p, u, r, s, n)
  \/ \E p \in Procs : SaveResponse(p)
  \/ \E p \in Procs : NotifyResponse(p)
  \/ \E p \in Procs, u \in Users, r \in ReqIds : BeginComplete(p, u, r)
  \/ \E p \in Procs : MarkDonor(p)
  \/ \E p \in Procs : SaveCompletion(p)
  \/ \E u \in Owners, r \in ReqIds, reason \in ReasonInputs : CancelRequest(u, r, reason)

SpecConcurrent == InitConcurrent /\ [][NextConcurrent]_vars

\* ======================================== donor search and the pure lookups
\* Dates are counted in seconds; positions are metres along one line, so the
\* distance of two positions is the absolute difference.
CooldownDays == 56
DayLength == 24 * 60 * 60
DefaultRadius == 50

\* userSchema.methods.isEligibleToDonate, evaluated at the time now
IsEligibleToDonate_Inclusive(user) ==
  IF user.userType # "donor" THEN FALSE
  ELSE IF ~user.isAvailable THEN FALSE
  ELSE IF ~user.isVerified THEN FALSE
  ELSE IF user.lastDonationDate # NoDate
          /\ (now - user.lastDonationDate) <= CooldownDays * DayLength THEN FALSE
  ELSE TRUE
IsEligibleToDonate(user) ==
  IF user.userType # "donor" THEN FALSE
  ELSE IF ~user.isAvailable THEN FALSE
  ELSE IF ~user.isVerified THEN FALSE
  ELSE IF user.lastDonationDate # NoDate
          /\ (now - user.lastDonationDate) < CooldownDays * DayLength THEN FALSE
  ELSE TRUE

\* a JavaScript value a lookup can return: an array of the table, or the
\* member every object literal inherits under that key
ArrayOf(items) == [kind |-> "array", items |-> items]
InheritedMember(key) == [kind |-> "inherited", name |-> key]
ObjectPrototypeKeys == {"constructor", "toString"}

\* getCompatibleBloodTypes of routes/donors.js
GetCompatibleBloodTypes(bloodType) ==
  CASE bloodType = "A+" -> ArrayOf(<<"A+", "A-", "O+", "O-">>)
    [] bloodType = "A-" -> ArrayOf(<<"A-", "O-">>)
    [] bloodType = "B+" -> ArrayOf(<<"B+", "B-", "O+", "O-">>)
    [] bloodType = "B-" -> ArrayOf(<<"B-", "O-">>)
    [] bloodType = "AB+" -> ArrayOf(<<"A+", "A-", "B+", "B-", "AB+", "AB-", "O+", "O-">>)
    [] bloodType = "AB-" -> ArrayOf(<<"A-", "B-", "AB-", "O-">>)
    [] bloodType = "O+" -> ArrayOf(<<"O+", "O-">>)
    [] bloodType = "O-" -> ArrayOf(<<"O-">>)
    [] bloodType \in ObjectPrototypeKeys -> InheritedMember(bloodType)
    [] OTHER -> ArrayOf(<< >>)

\* bloodRequestSchema.methods.getCompatibleBloodTypes
RequestCompatibleBloodTypes(request) ==
  CASE request.bloodType = "A+" -> ArrayOf(<<"A+", "A-", "O+", "O-">>)
    [] request.bloodType = "A-" -> ArrayOf(<<"A-", "O-">>)
    [] request.bloodType = "B+" -> ArrayOf(<<"B+", "B-", "O+", "O-">>)
    [] request.bloodType = "B-" -> ArrayOf(<<"B-", "O-">>)
    [] request.bloodType = "AB+" -> ArrayOf(<<"A+", "A-", "B+", "B-", "AB+", "AB-", "O+", "O-">>)
    [] request.bloodType = "AB-" -> ArrayOf(<<"A-", "B-", "AB-", "O-">>)
    [] request.bloodType = "O+" -> ArrayOf(<<"O+", "O-">>)
    [] request.bloodType = "O-" -> ArrayOf(<<"O-">>)
    [] request.bloodType \in ObjectPrototypeKeys -> InheritedMember(request.bloodType)
    [] OTHER -> ArrayOf(<< >>)

\* elements of an array
Elements(array) == {array[i] : i \in 1..Len(array)}

\* distance in metres between two positions (geolib.getDistance, $near)
Distance(a, b) == IF a >= b THEN a - b ELSE b - a

\* Math.round(distance / 1000 * 10) / 10, kept in tenths of a kilometre
RoundedDistance(metres) == (metres + 50) \div 100

\* the bloodType condition of the query
BloodTypeMatches(user, bloodType) ==
  IF bloodType # Absent
    THEN /\ GetCompatibleBloodTypes(bloodType).kind = "array"
         /\ user.bloodType \in Elements(GetCompatibleBloodTypes(bloodType).items)
    ELSE user.bloodType # Absent

\* parseFloat and the numeric coercion of a query string
ParseFloat(text) ==
  CASE text = "0" -> 0
    [] text = "10" -> 10

\* radius = 50 when the query has none
RadiusOf(query) ==
  IF query.radius = Absent THEN DefaultRadius ELSE ParseFloat(query.radius)

\* the users matched by User.find({...}) of GET /available
MatchedByQuery_NoRadius(query) ==
  {u \in Users :
     /\ users[u].userType = "donor"
     /\ users[u].isAvailable
     /\ users[u].isVerified
     /\ BloodTypeMatches(users[u], query.bloodType)}
MatchedByQuery(query) ==
  {u \in Users :
     /\ users[u].userType = "donor"
     /\ users[u].isAvailable
     /\ users[u].isVerified
     /\ BloodTypeMatches(users[u], query.bloodType)
     /\ Distance(ParseFloat(query.lat), users[u].location) <= RadiusOf(query) * 1000}

\* the orders in which $near may return the matched users: nearest first
NearOrders_AnyOrder(matched, origin) ==
  {donors \in [1..Cardinality(matched) -> matched] :
     \A i, j \in 1..Cardinality(matched) : i # j => donors[i] # donors[j]}
NearOrders(matched, origin) ==
  {donors \in [1..Cardinality(matched) -> matched] :
     /\ \A i, j \in 1..Cardinality(matched) : i # j => donors[i] # donors[j]
     /\ \A i, j \in 1..Cardinality(matched) :
          i < j => Distance(origin, users[donors[i]].location)
                     <= Distance(origin, users[donors[j]].location)}

\* Array.prototype.sort((a, b) => a.distance - b.distance): stable
RECURSIVE SortByDistance(_)
SortByDistance(entries) ==
  IF entries = << >> THEN << >>
  ELSE LET sorted == SortByDistance(SubSeq(entries, 1, Len(entries) - 1))
           entry == entries[Len(entries)]
           before == {i \in 1..Len(sorted) : sorted[i].distance <= entry.distance}
           k == Cardinality({i \in 1..Len(sorted) :
                               \A j \in 1..i : j \in before})
       IN SubSeq(sorted, 1, k) \o <<entry>> \o SubSeq(sorted, k + 1, Len(sorted))

\* filter(isEligibleToDonate).map(distance).sort(by distance) of GET /available
EligibleDonors(donors, query) ==
  LET eligible == SelectSeq(donors, LAMBDA u : IsEligibleToDonate(users[u]))
  IN SortByDistance([i \in 1..Len(eligible) |->
                       [id |-> eligible[i],
                        distance |-> RoundedDistance(
                                       Distance(ParseFloat(query.lat), users[eligible[i]].location))]])

\* what a read-only call answered
QueryAnswer(op, query, code, result) ==
  [op |-> op, query |-> query, code |-> code, result |-> result]

\* the stored users a search runs against
BloodTypeSamples == {"O-", "A+"}
LocationSamples == {120, 140, 10000, 10001}
DateSamples == {NoDate, 0}
NowSamples == {55 * DayLength, 56 * DayLength - 1, 56 * DayLength}
SearchDonors ==
  [userType : {"donor"}, isVerified : BOOLEAN, isAvailable : BOOLEAN,
   lastDonationDate : DateSamples, bloodType : BloodTypeSamples,
   location : LocationSamples]
SearchPatient ==
  [userType |-> "patient", isVerified |-> TRUE, isAvailable |-> TRUE,
   lastDonationDate |-> NoDate, bloodType |-> "O-", location |-> 120]

\* req.query of GET /available
SearchQueries ==
  [bloodType : {Absent, "AB-", "X", "constructor"}, lat : {Absent, "0"}, lng : {Absent, "0"},
   radius : {Absent, "10"}]

InitSearch ==
  /\ requests = << >>
  /\ \E a, b \in SearchDonors :
       /\ b.isVerified /\ b.isAvailable /\ b.bloodType = "O-"
       /\ users = [u \in Users |-> IF u = "d1" THEN a
                                   ELSE IF u = "d2" THEN b
                                   ELSE SearchPatient]
  /\ notifications = {}
  /\ now \in NowSamples
  /\ last = QueryAnswer("init", Absent, OK, Absent)
  /\ inflight = << >>

\* GET /available
GetAvailableDonors(query) ==
  IF query.lat = Absent \/ query.lng = Absent
    THEN /\ last' = QueryAnswer("available", query, BadRequest, << >>)
         /\ UNCHANGED <<requests, users, notifications, now, inflight>>
    ELSE /\ \/ \E donors \in NearOrders(MatchedByQuery(query), ParseFloat(query.lat)) :
                 last' = QueryAnswer("available", query, OK, EligibleDonors(donors, query))
            \/ /\ query.bloodType # Absent
               /\ GetCompatibleBloodTypes(query.bloodType).kind # "array"
               /\ last' = QueryAnswer("available", query, ServerError, << >>)
         /\ UNCHANGED <<requests, users, notifications, now, inflight>>

\* donor.isEligibleToDonate() on a stored user
CheckEligibility(u) ==
  /\ last' = QueryAnswer("eligible", u, OK, IsEligibleToDonate(users[u]))
  /\ UNCHANGED <<requests, users, notifications, now, inflight>>

\* both compatibility lookups for one blood type
LookupCompatible(bloodType) ==
  /\ last' = QueryAnswer("compatible", bloodType, OK,
                       <<GetCompatibleBloodTypes(bloodType),
                         RequestCompatibleBloodTypes(
                           NewBloodRequest("p1", bloodType, "medium"))>>)
  /\ UNCHANGED <<requests, users, notifications, now, inflight>>

NextSearch ==
  \/ \E query \in SearchQueries : GetAvailableDonors(query)
  \/ \E u \in Users : CheckEligibility(u)
  \/ \E bloodType \in BloodTypeEnum \cup ObjectPrototypeKeys \cup {"X", Absent} :
       LookupCompatible(bloodType)

SpecSearch == InitSearch /\ [][NextSearch]_vars

\* ================================== completion, cooldown and re-opting in
\* Dates are counted in seconds, as in the donor search.
MaxSteps == 2
StepLength == 28 * DayLength
StartTime == 56 * DayLength

\* req.body of PUT /availability; hasIsAvailable is isAvailable !== undefined,
\* lastDonationDate is NoDate when the body has none
AvailabilityBodies ==
  {[hasIsAvailable |-> TRUE, isAvailable |-> TRUE, lastDonationDate |-> NoDate],
   [hasIsAvailable |-> TRUE, isAvailable |-> FALSE, lastDonationDate |-> NoDate],
   [hasIsAvailable |-> FALSE, isAvailable |-> FALSE, lastDonationDate |-> 0],
   [hasIsAvailable |-> TRUE, isAvailable |-> TRUE, lastDonationDate |-> 0],
   [hasIsAvailable |-> FALSE, isAvailable |-> FALSE, lastDonationDate |-> NoDate]}

\* updateData of PUT /availability applied to the stored user
ApplyAvailability(user, body) ==
  [user EXCEPT
     !.isAvailable = IF body.hasIsAvailable THEN body.isAvailable ELSE @,
     !.lastDonationDate = IF body.lastDonationDate # NoDate
                            THEN body.lastDonationDate ELSE @]

\* PUT /availability
UpdateAvailability(userId, body) ==
  IF userId \notin DOMAIN users
    THEN /\ last' = Call("availability", userId, Absent, Absent, body, NotFound)
         /\ UNCHANGED <<requests, users, notifications, now, inflight>>
    ELSE /\ users' = [users EXCEPT ![userId] = ApplyAvailability(@, body)]
         /\ last' = Call("availability", userId, Absent, Absent, body, OK)
         /\ UNCHANGED <<requests, notifications, now, inflight>>

\* four weeks pass between calls
Wait ==
  /\ now < StartTime + MaxSteps * StepLength
  /\ now' = now + StepLength
  /\ last' = Call("tick", Absent, Absent, Absent, NoBody, OK)
  /\ UNCHANGED <<requests, users, notifications, inflight>>

\* a request matched by the accepted responses of d1 and then d2, and verified
\* donors of type O- near the origin
InitCooldown ==
  /\ requests =
       [r \in ReqIds |->
          [NewBloodRequest("p1", "O-", "critical") EXCEPT
             !.status = "matched",
             !.matchedDonors = <<[donor |-> "d1", status |-> "accepted",
                                  respondedAt |-> 0, notes |-> "n1"],
                                 [donor |-> "d2", status |-> "accepted",
                                  respondedAt |-> 0, notes |-> "n1"]>>]]
  /\ \E a, b \in SearchDonors :
       /\ a.isVerified /\ a.bloodType = "O-" /\ a.location = 120
       /\ b.isVerified /\ b.bloodType = "O-" /\ b.location = 140
       /\ users = [u \in Users |-> IF u = "d1" THEN a
                                   ELSE IF u = "d2" THEN b
                                   ELSE SearchPatient]
  /\ notifications = {}
  /\ now = StartTime
  /\ last = Call("init", Absent, Absent, Absent, NoBody, OK)
  /\ inflight = << >>

NextCooldown ==
  \/ Wait
  \/ \E u \in Users, r \in ReqIds : CompleteRequest(u, r)
  \/ \E u \in Donors, body \in AvailabilityBodies : UpdateAvailability(u, body)
  \/ \E query \in SearchQueries : GetAvailableDonors(query)
  \/ \E u \in Donors : CheckEligibility(u)

SpecCooldown == InitCooldown /\ [][NextCooldown]_vars

\* ===================================================================== claims
\* the step just taken answered a call of the route op on the stored request r
Answered(op, r) == last'.op = op /\ last'.req = r /\ r \in DOMAIN requests

HasEntry(request, donorId, status) ==
  \E i \in 1..Len(request.matchedDonors) :
    request.matchedDonors[i].donor = donorId /\ request.matchedDonors[i].status = status

NoAccepted(request) ==
  \A i \in 1..Len(request.matchedDonors) : request.matchedDonors[i].status # "accepted"

\* userId owns the first entry of the list whose status is accepted
IsFirstAccepted(request, userId) ==
  \E i \in 1..Len(request.matchedDonors) :
    /\ request.matchedDonors[i].donor = userId
    /\ request.matchedDonors[i].status = "accepted"
    /\ \A j \in 1..(i - 1) : request.matchedDonors[j].status # "accepted"

Rank(status) ==
  CASE status = "active" -> 0
    [] status = "matched" -> 1
    [] OTHER -> 2

\* C1: over every sequence of lifecycle calls the status only moves forward:
\* never from matched back to active, and a completed or cancelled request
\* keeps its status.
C1_StatusOnlyMovesForward ==
  [][\A r \in DOMAIN requests :
       /\ Rank(requests'[r].status) >= Rank(requests[r].status)
       /\ requests[r].status \in {"completed", "cancelled"}
            => requests'[r].status = requests[r].status]_vars

\* C2: a response accepted on an active request makes it matched, a response
\* declined leaves it active, any response on a matched request leaves it
\* matched, and the response is recorded in the matched-donor list.
C2_RespondFollowsTable ==
  [][\A r \in ReqIds :
       (/\ Answered("respond", r)
        /\ last'.status \in {"accepted", "declined"}
        /\ requests[r].status \in {"active", "matched"})
       => /\ requests[r].status = "active" /\ last'.status = "accepted"
               => requests'[r].status = "matched"
          /\ requests[r].status = "active" /\ last'.status = "declined"
               => requests'[r].status = "active"
          /\ requests[r].status = "matched" => requests'[r].status = "matched"
          /\ HasEntry(requests'[r], last'.user, last'.status)]_vars

\* a donor with an earlier entry has just answered declined on a matched request
C2_Witness ==
  \E r \in DOMAIN requests :
    /\ last.op = "respond" /\ last.req = r /\ last.status = "declined"
    /\ requests[r].status = "matched"
    /\ Len(requests[r].matchedDonors) = 2
    /\ HasEntry(requests[r], last.user, "declined")
    /\ requests[r].matchedDonors[1].donor = last.user

\* C3: a response to a cancelled or completed request is answered 400 and
\* changes neither the request nor the notifications.
C3_RespondOnClosedRejected ==
  [][\A r \in ReqIds :
       (/\ Answered("respond", r)
        /\ requests[r].status \in {"cancelled", "completed"})
       => /\ last'.code = BadRequest
          /\ requests' = requests
          /\ notifications' = notifications]_vars

C3_Witness ==
  \E r \in DOMAIN requests :
    /\ last.op = "respond" /\ last.req = r /\ last.status = "accepted"
    /\ last.code = BadRequest
    /\ requests[r].status = "cancelled"

C5_CompleteForbidden ==
  [][\A r \in ReqIds :
       (/\ Answered("complete", r)
        /\ requests[r].patient # last'.user
        /\ ~HasEntry(requests[r], last'.user, "accepted"))
       => /\ last'.code = Forbidden
          /\ requests' = requests
          /\ users' = users]_vars

\* a donor whose entry is declined was refused on a matched request
C5_Witness ==
  \E r \in DOMAIN requests :
    /\ last.op = "complete" /\ last.req = r /\ last.code = Forbidden
    /\ HasEntry(requests[r], last.user, "declined")
    /\ requests[r].status = "matched"

\* C6: a successful completion sets status completed and completedAt, sets
\* lastDonationDate to now and isAvailable to false for the donor of the first
\* accepted entry, and changes no other user.
C6_CompleteEffects ==
  [][\A r \in ReqIds :
       (Answered("complete", r) /\ last'.code = OK)
       => /\ requests'[r].status = "completed"
          /\ requests'[r].completedAt = now
          /\ \A u \in Users :
               users'[u] = IF IsFirstAccepted(requests[r], u)
                             THEN [users[u] EXCEPT !.lastDonationDate = now,
                                                   !.isAvailable = FALSE]
                             ELSE users[u]]_vars

\* completed with two accepted entries: only the first one's donor was marked
C6_Witness ==
  \E r \in DOMAIN requests :
    /\ last.op = "complete" /\ last.req = r /\ last.code = OK
    /\ requests[r].status = "completed"
    /\ requests[r].completedAt = now
    /\ Len(requests[r].matchedDonors) = 2
    /\ requests[r].matchedDonors[1].status = "accepted"
    /\ requests[r].matchedDonors[2].status = "accepted"
    /\ ~users[requests[r].matchedDonors[1].donor].isAvailable
    /\ users[requests[r].matchedDonors[1].donor].lastDonationDate = now
    /\ users[requests[r].matchedDonors[2].donor].isAvailable

\* C7 as stated: a donor with an accepted entry who completes the request is
\* the one whose isAvailable becomes false and lastDonationDate becomes now.
C7_CallingDonorMarked ==
  [][\A r \in ReqIds :
       (/\ Answered("complete", r) /\ last'.code = OK
        /\ HasEntry(requests[r], last'.user, "accepted"))
       => /\ requests'[r].status = "completed"
          /\ users'[last'.user].isAvailable = FALSE
          /\ users'[last'.user].lastDonationDate = now]_vars

\* C7 amended: the calling donor is marked when theirs is the first accepted
\* entry of the list.
C7_FirstAcceptedCallerMarked ==
  [][\A r \in ReqIds :
       (/\ Answered("complete", r) /\ last'.code = OK
        /\ IsFirstAccepted(requests[r], last'.user))
       => /\ requests'[r].status = "completed"
          /\ users'[last'.user].isAvailable = FALSE
          /\ users'[last'.user].lastDonationDate = now]_vars

\* the completing donor accepted after another donor had answered declined
C7_Witness ==
  \E r \in DOMAIN requests :
    /\ last.op = "complete" /\ last.req = r /\ last.code = OK
    /\ last.user \in Donors
    /\ Len(requests[r].matchedDonors) = 2
    /\ requests[r].matchedDonors[1].status = "declined"
    /\ requests[r].matchedDonors[2].donor = last.user
    /\ requests[r].matchedDonors[2].status = "accepted"
    /\ ~users[last.user].isAvailable
    /\ users[last.user].lastDonationDate = now

\* C8: a completed request has completedAt set and exactly one matched-donor
\* entry with response status completed.
C8_CompletedHasCompletingDonor ==
  \A r \in DOMAIN requests :
    requests[r].status = "completed"
    => /\ requests[r].completedAt # NoDate
       /\ Cardinality({i \in 1..Len(requests[r].matchedDonors) :
                         requests[r].matchedDonors[i].status = "completed"}) = 1

\* C9: a matched request has at least one matched-donor entry with response
\* status accepted.
C9_MatchedHasAccepted ==
  \A r \in DOMAIN requests :
    requests[r].status = "matched" => ~NoAccepted(requests[r])

\* C10: a declined response by a donor whose entry is accepted on a matched
\* request turns that entry to declined and leaves the request matched, and
\* the owning patient's completion of a matched request without any accepted
\* entry succeeds.
C10_DeclineAfterAcceptStaysMatched ==
  [][\A r \in ReqIds :
       /\ (/\ Answered("respond", r) /\ last'.status = "declined"
           /\ requests[r].status = "matched"
           /\ HasEntry(requests[r], last'.user, "accepted"))
          => /\ requests'[r].status = "matched"
             /\ HasEntry(requests'[r], last'.user, "declined")
             /\ ~HasEntry(requests'[r], last'.user, "accepted")
             /\ Len(requests'[r].matchedDonors) = Len(requests[r].matchedDonors)
       /\ (/\ Answered("complete", r)
           /\ requests[r].status = "matched"
           /\ NoAccepted(requests[r])
           /\ last'.user = requests[r].patient)
          => /\ last'.code = OK
             /\ requests'[r].status = "completed"
             /\ users' = users]_vars

\* the patient has completed a request whose only entry is declined
C10_Witness ==
  \E r \in DOMAIN requests :
    /\ last.op = "complete" /\ last.req = r /\ last.code = OK
    /\ last.user = requests[r].patient
    /\ requests[r].status = "completed"
    /\ Len(requests[r].matchedDonors) = 1
    /\ requests[r].matchedDonors[1].status = "declined"
\* each donor owns at most one entry of the matched-donor list
OneEntryPerDonor(request) ==
  \A i, j \in 1..Len(request.matchedDonors) :
    request.matchedDonors[i].donor = request.matchedDonors[j].donor => i = j

\* C11: after every recorded response the matched-donor list holds at most one
\* entry per donor; a response by a donor who already has an entry rewrites
\* status, respondedAt and notes of that entry and leaves the length of the
\* list and the donor at every position unchanged.
C11_OneEntryPerDonor ==
  [][\A r \in ReqIds :
       (/\ Answered("respond", r)
        /\ requests[r].status \in {"active", "matched"}
        /\ last'.status \in MatchStatusEnum)
       => /\ OneEntryPerDonor(requests'[r])
          /\ \A i \in 1..Len(requests[r].matchedDonors) :
               requests'[r].matchedDonors[i] =
                 IF requests[r].matchedDonors[i].donor = last'.user
                   THEN [donor |-> last'.user, status |-> last'.status,
                         respondedAt |-> now, notes |-> last'.body.notes]
                   ELSE requests[r].matchedDonors[i]
          /\ (\E i \in 1..Len(requests[r].matchedDonors) :
                requests[r].matchedDonors[i].donor = last'.user)
             => Len(requests'[r].matchedDonors) = Len(requests[r].matchedDonors)]_vars

\* the first of two entries was rewritten by a later response of its donor with
\* other notes, after the second donor had answered
C11_Witness ==
  \E r \in DOMAIN requests :
    /\ last.op = "respond" /\ last.req = r /\ last.body.notes = "n2"
    /\ Len(requests[r].matchedDonors) = 2
    /\ requests[r].matchedDonors[1].donor = last.user
    /\ requests[r].matchedDonors[1].notes = "n2"
    /\ requests[r].matchedDonors[1].respondedAt = now
    /\ requests[r].matchedDonors[2].respondedAt < now
    /\ requests[r].matchedDonors[2].notes = "n1"

\* C12: a cancel by the owning patient of an active or matched request sets
\* status cancelled, cancelledAt and the reason; on a completed or cancelled
\* request it is answered 400 (InvalidState), not the 404 of an absent or
\* foreign request, and changes nothing.
C12_CancelDistinctErrors ==
  [][\A r \in ReqIds :
       (Answered("cancel", r) /\ last'.user = requests[r].patient)
       => /\ requests[r].status \in {"active", "matched"}
               => /\ last'.code = OK
                  /\ requests'[r].status = "cancelled"
                  /\ requests'[r].cancelledAt = now
                  /\ requests'[r].cancellationReason \in ReasonInputs
          /\ requests[r].status \in {"completed", "cancelled"}
               => /\ last'.code = BadRequest
                  /\ last'.code # NotFound
                  /\ requests' = requests]_vars

\* C13: every recorded response stores a notification addressed to the owning
\* patient that carries the outcome.
C13_ResponseNotifiesPatient ==
  [][\A r \in ReqIds :
       (/\ Answered("respond", r)
        /\ requests[r].status \in {"active", "matched"}
        /\ last'.status \in {"accepted", "declined"})
       => \E n \in notifications' :
            /\ n.recipient = requests[r].patient
            /\ n.requestId = r
            /\ n.donorId = last'.user
            /\ n.message = last'.status]_vars

\* C14: a respond call that has saved the request answers 200 whatever the
\* notification step does.
C14_NotificationFailureSwallowed ==
  [][\A r \in ReqIds :
       (Answered("respond", r) /\ requests'[r] # requests[r])
       => last'.code = OK]_vars
\* C15: when two respond calls on one request have both finished, the list
\* holds at most one entry per donor, holds the response of each call when the
\* two donors differ, and the request is matched if either response was
\* accepted.
C15_NoLostResponse ==
  \A p, q \in Procs :
    (/\ p # q
     /\ inflight[p].pc = "done" /\ inflight[p].op = "respond" /\ inflight[p].doc # NoDoc
     /\ inflight[q].pc = "done" /\ inflight[q].op = "respond" /\ inflight[q].doc # NoDoc
     /\ inflight[p].req = inflight[q].req
     /\ requests[inflight[p].req].status # "cancelled")
    => LET request == requests[inflight[p].req] IN
       /\ OneEntryPerDonor(request)
       /\ inflight[p].user # inflight[q].user
            => /\ HasEntry(request, inflight[p].user, inflight[p].status)
               /\ HasEntry(request, inflight[q].user, inflight[q].status)
       /\ "accepted" \in {inflight[p].status, inflight[q].status}
            => request.status = "matched"

\* C16: once the cancel has committed, no call still in flight changes the
\* request's status or matched-donor list or any donor.
C16_CancelledStaysCancelled ==
  [][\A r \in DOMAIN requests :
       requests[r].status = "cancelled"
       => /\ requests'[r].status = "cancelled"
          /\ requests'[r].matchedDonors = requests[r].matchedDonors
          /\ \A u \in Users :
               /\ users'[u].lastDonationDate = users[u].lastDonationDate
               /\ users'[u].isAvailable = users[u].isAvailable]_vars

\* whole days elapsed at the time now since a date
WholeDaysSince(date) == (now - date) \div DayLength

\* the eligibility rule: donor, available, verified, and no donation on record
\* or one at least 56 whole days old
EligibleNow(u) ==
  /\ users[u].userType = "donor"
  /\ users[u].isAvailable
  /\ users[u].isVerified
  /\ \/ users[u].lastDonationDate = NoDate
     \/ WholeDaysSince(users[u].lastDonationDate) >= 56

CompatibleDonorTypes(recipientType) ==
  CASE recipientType = "A+" -> {"A+", "A-", "O+", "O-"}
    [] recipientType = "A-" -> {"A-", "O-"}
    [] recipientType = "B+" -> {"B+", "B-", "O+", "O-"}
    [] recipientType = "B-" -> {"B-", "O-"}
    [] recipientType = "AB+" -> BloodTypeEnum
    [] recipientType = "AB-" -> {"A-", "B-", "AB-", "O-"}
    [] recipientType = "O+" -> {"O+", "O-"}
    [] recipientType = "O-" -> {"O-"}
    [] OTHER -> {}

\* C18: both compatibility lookups return an array holding exactly the donor
\* types of the table for each of the eight recipient types (so O- is in every
\* one and AB+ gets all eight), and an empty array for any other input.
C18_LookupsMatchTable ==
  last.op = "compatible" =>
    \A i \in 1..2 :
      /\ last.result[i].kind = "array"
      /\ Elements(last.result[i].items) = CompatibleDonorTypes(last.query)
      /\ last.query \in BloodTypeEnum => "O-" \in Elements(last.result[i].items)
      /\ last.query = "AB+" => Elements(last.result[i].items) = BloodTypeEnum
      /\ last.query \notin BloodTypeEnum => last.result[i].items = << >>

\* the ids of the donors a search returned
Returned == {last.result[i].id : i \in 1..Len(last.result)}

\* C19: a successful donor search returns, once each, exactly the users that
\* are donors, have a blood type compatible with the requested recipient type
\* (any type when none is requested, none when it is unknown), are eligible at
\* the time of the search, and lie at most the radius away from the origin.
C19_ReturnsExactlyCandidates ==
  (last.op = "available" /\ last.code = OK) =>
    /\ Len(last.result) = Cardinality(Returned)
    /\ Returned =
         {u \in Users :
            /\ users[u].userType = "donor"
            /\ \/ last.query.bloodType = Absent
               \/ users[u].bloodType \in CompatibleDonorTypes(last.query.bloodType)
            /\ EligibleNow(u)
            /\ Distance(ParseFloat(last.query.lat), users[u].location)
                 <= RadiusOf(last.query) * 1000}

\* a search for AB- within 10 km returned the compatible donor at exactly
\* 10 km and left out an eligible O- donor one metre farther
C19_Witness ==
  /\ last.op = "available" /\ last.code = OK
  /\ last.query.bloodType = "AB-" /\ last.query.radius = "10"
  /\ Returned = {"d1"}
  /\ users["d1"].location = 10000
  /\ users["d2"].location = 10001
  /\ EligibleNow("d2")

\* C20: the donors of a search are listed by non-decreasing distance from the
\* origin, both the true distance and the reported one; a search without
\* latitude or without longitude is answered 400 and lists no donor.
C20_OrderedByDistance ==
  last.op = "available" =>
    /\ (last.query.lat = Absent \/ last.query.lng = Absent)
       => (last.code = BadRequest /\ last.result = << >>)
    /\ \A i, j \in 1..Len(last.result) :
         i < j =>
           /\ last.result[i].distance <= last.result[j].distance
           /\ Distance(ParseFloat(last.query.lat), users[last.result[i].id].location)
                <= Distance(ParseFloat(last.query.lat), users[last.result[j].id].location)

\* two donors with the same reported distance are listed nearest first
C20_Witness ==
  /\ last.op = "available" /\ last.code = OK
  /\ Len(last.result) = 2
  /\ last.result[1].id = "d2" /\ last.result[2].id = "d1"
  /\ last.result[1].distance = last.result[2].distance
  /\ users["d2"].location = 120
  /\ users["d1"].location = 140


\* C21: a create call with a blood type and an urgency of the enums and two
\* hospital coordinates is answered 201 and stores a new request of the caller
\* with status active, no matched donor, no completedAt and no cancelledAt;
\* with any of the three invalid it is answered 400 and stores nothing.
C21_CreateValidated ==
  [][\A r \in ReqIds :
       (last'.op = "create" /\ last'.req = r /\ r \notin DOMAIN requests)
       => IF /\ last'.body.bloodType \in BloodTypeEnum
             /\ last'.body.urgency \in UrgencyEnum
             /\ last'.body.coordinates = 2
            THEN /\ last'.code = Created
                 /\ DOMAIN requests' = DOMAIN requests \cup {r}
                 /\ requests'[r].patient = last'.user
                 /\ requests'[r].status = "active"
                 /\ requests'[r].matchedDonors = << >>
                 /\ requests'[r].completedAt = NoDate
                 /\ requests'[r].cancelledAt = NoDate
            ELSE /\ last'.code = BadRequest
                 /\ requests' = requests]_vars

\* a valid create call has just stored a fresh active request
C21_Witness ==
  \E r \in DOMAIN requests :
    /\ last.op = "create" /\ last.req = r /\ last.code = Created
    /\ last.body.bloodType = "O-" /\ last.body.urgency = "critical"
    /\ requests[r].status = "active"
    /\ requests[r].matchedDonors = << >>
    /\ requests[r].completedAt = NoDate /\ requests[r].cancelledAt = NoDate


\* C22: every create call answered 201 leaves a notification about the new
\* request addressed to a registered donor.
C22_CreateNotifiesDonors ==
  [][\A r \in ReqIds :
       (last'.op = "create" /\ last'.req = r /\ last'.code = Created
        /\ r \notin DOMAIN requests)
       => \E n \in notifications' \ notifications :
            /\ n.recipient \in Donors
            /\ n.requestId = r]_vars


\* C23: a completion that marks a donor leaves that donor unavailable and not
\* eligible; an unavailable donor becomes available only by that donor's own
\* availability call with isAvailable true; such a call without a donation date,
\* made less than 56 days after the recorded donation, leaves the donor not
\* eligible; and every donor a search returns is available and eligible.
C23_CooldownUntilOptIn ==
  [][\A d \in Donors :
       /\ (last'.op = "complete" /\ last'.code = OK /\ users'[d] # users[d])
          => (~users'[d].isAvailable /\ ~EligibleNow(d)')
       /\ (~users[d].isAvailable /\ users'[d].isAvailable)
          => /\ last'.op = "availability" /\ last'.user = d
             /\ last'.body.hasIsAvailable /\ last'.body.isAvailable
       /\ (/\ last'.op = "availability" /\ last'.user = d
           /\ last'.body.lastDonationDate = NoDate
           /\ users[d].lastDonationDate # NoDate
           /\ now - users[d].lastDonationDate < 56 * DayLength)
          => ~EligibleNow(d)'
       /\ (last'.op = "available" /\ last'.code = OK)
          => (d \in {last'.result[i].id : i \in 1..Len(last'.result)}
              => (users'[d].isAvailable /\ EligibleNow(d)'))]_vars

\* four weeks after the completion that marked d1, d1 has opted in again and
\* is still not eligible
C23_Witness ==
  \E r \in DOMAIN requests :
    /\ last.op = "availability" /\ last.user = "d1"
    /\ last.body.hasIsAvailable /\ last.body.lastDonationDate = NoDate
    /\ requests[r].status = "completed"
    /\ users["d1"].lastDonationDate = requests[r].completedAt
    /\ now - requests[r].completedAt = StepLength
    /\ users["d1"].isAvailable
    /\ ~EligibleNow("d1")


\* C24: a respond call whose status is neither accepted nor declined is not
\* answered 200 and leaves the request as it was, so no matched-donor entry
\* gets another status through a response.
C24_OnlyAcceptedOrDeclinedRecorded ==
  [][\A r \in ReqIds :
       (Answered("respond", r) /\ last'.status \notin {"accepted", "declined"})
       => /\ last'.code # OK
          /\ requests'[r] = requests[r]]_vars


\* C25: an update call, whatever its body, leaves the status, the matched-donor
\* list, completedAt, cancelledAt and the patient of the request unchanged.
C25_UpdateKeepsLifecycleFields ==
  [][\A r \in ReqIds :
       Answered("update", r)
       => /\ requests'[r].status = requests[r].status
          /\ requests'[r].matchedDonors = requests[r].matchedDonors
          /\ requests'[r].completedAt = requests[r].completedAt
          /\ requests'[r].cancelledAt = requests[r].cancelledAt
          /\ requests'[r].patient = requests[r].patient]_vars


\* C26: whenever no call is in flight, a donor whose lastDonationDate or
\* isAvailable was changed by a completion has an accepted entry in a request
\* that is completed.
C26_CompletionAllOrNothing ==
  (\A p \in DOMAIN inflight : inflight[p].pc \in {"idle", "done"})
  => \A d \in Donors :
       (users[d].lastDonationDate # NoDate \/ ~users[d].isAvailable)
       => \E r \in DOMAIN requests :
            /\ requests[r].status = "completed"
            /\ HasEntry(requests[r], d, "accepted")

====
